---- MODULE Spec2Model ----
(***************************************************************************)
(* Model of the schedule parser of bsu-backend                             *)
(* (src/backend/schedule_parser.py, src/backend/models.py) and of the      *)
(* service that calls it (src/backend/main.py: the handler of              *)
(* /schedule/parse, the cache and the background refresher).               *)
(*                                                                         *)
(* Text is modelled character by character: a Python str is a sequence of  *)
(* Unicode code points, so "лек" is <<1083, 1077, 1082>>.  The regular     *)
(* expressions of the source are operators over such sequences that        *)
(* follow the matching order of Python's re module (leftmost match,        *)
(* ordered alternatives, greedy quantifiers with backtracking).            *)
(* Positions are 1-based; a match is a record [s |-> first position,       *)
(* e |-> position after the last], and NoMatch when there is none.         *)
(*                                                                         *)
(* Coordinates are integers.  The source halves coordinates twice (a word  *)
(* centre is (x0 + x1) / 2, a column edge the midpoint of two centres), so *)
(* centres are kept doubled (center2, y2) and column edges quadrupled      *)
(* (x0q, x1q); every comparison of the source is made on the scaled        *)
(* values and is exact.                                                    *)
(***************************************************************************)
EXTENDS Integers, Sequences, FiniteSets, Bags

VARIABLES
    \* parse_schedule_pdf(pdf_bytes, course)
    openable,           \* whether pdfplumber.open accepts pdf_bytes
    n_pages,            \* len(pdf.pages)
    course,             \* the course argument
    pc,                 \* "open", "pages", "done", "raised"
    start_page,         \* start_page
    pages,              \* pdf.pages[start_page : start_page + 2], as 0-based page indices
    pages_read,         \* the content of the pages analysed so far, as indices into PageLib
    page,               \* page of the last iteration: [width, height, words]
    group_anchors,      \* group_anchors of the last iteration
    columns,            \* columns as the last iteration left it
    rows,               \* rows as the last iteration left it
    schedule_by_group,  \* schedule_by_group, as buckets in creation order
    result,             \* ParsedScheduleResponse.groups
    \* _spatial_text_parser(text)
    parts,              \* how the cell text was composed: [marker, subject, teacher, room]
    text,               \* the text argument
    tpc,                \* "call", "returned"
    lessons,            \* the returned list
    \* main.py
    ACTIVE_SCHEDULES,   \* the set of (pdf_url, course) pairs
    cache,              \* the files of CACHE_DIR, by (pdf_url, course)
    calls,              \* the number of calls of parse_schedule so far
    requests,           \* the calls that wait for the parser, each with its locals: a bag
    response,           \* the last response of parse_schedule, with the locals it came from
    refresher           \* refresh_schedules_task: its position and locals

pageVars == <<page, group_anchors, columns, rows>>
parseVars == <<openable, n_pages, course, pc, start_page, pages, pages_read,
               pageVars, schedule_by_group, result>>
textVars == <<parts, text, tpc, lessons>>
serviceVars == <<ACTIVE_SCHEDULES, cache, calls, requests, response, refresher>>
vars == <<parseVars, textVars, serviceVars>>

-----------------------------------------------------------------------------
(* Characters and str methods                                              *)

Max(S) == CHOOSE x \in S : \A y \in S : y <= x
Min(S) == CHOOSE x \in S : \A y \in S : x <= y

\* \d, str.isdigit (ASCII digits; the inputs hold no other digits)
IsDigit(c) == c \in 48..57

\* [A-ЯЁ] of TEACHER_PATTERN: the range starts at the Latin letter A (U+0041)
\* and ends at the Cyrillic Я (U+042F); Ё is U+0401.
IsUpperAYa(c) == c \in 65..1071 \/ c = 1025

\* [а-яё] of TEACHER_PATTERN
IsLowerCyr(c) == c \in 1072..1103 \/ c = 1105

\* \s of a str pattern, str.strip: Unicode white space below U+0500
IsSpace(c) == c \in 9..13 \/ c \in 28..32 \/ c = 133 \/ c = 160

\* a letter of the Latin or Cyrillic alphabet
IsLetter(c) == c \in 65..90 \/ c \in 97..122 \/ c \in 1024..1119

\* \w of a str pattern: letters, digits and the underscore
IsWordChar(c) == IsLetter(c) \/ IsDigit(c) \/ c = 95

\* str.lower, one character (Latin and Cyrillic)
ToLower(c) ==
    IF c \in 65..90 \/ c \in 1040..1071 THEN c + 32
    ELSE IF c \in 1024..1039 THEN c + 80
    ELSE c

\* str.upper, one character (Latin and Cyrillic)
ToUpper(c) ==
    IF c \in 97..122 \/ c \in 1072..1103 THEN c - 32
    ELSE IF c \in 1104..1119 THEN c - 80
    ELSE c

Lower(s) == [i \in 1..Len(s) |-> ToLower(s[i])]

\* str.capitalize
Capitalize(s) == [i \in 1..Len(s) |-> IF i = 1 THEN ToUpper(s[i]) ELSE ToLower(s[i])]

\* s[i:] starts with lit
StartsAt(s, i, lit) ==
    /\ i >= 1
    /\ i + Len(lit) - 1 <= Len(s)
    /\ \A k \in 1..Len(lit) : s[i + k - 1] = lit[k]

\* s[i:] starts with lit, ignoring case (re.IGNORECASE on a literal)
StartsAtIgnoreCase(s, i, lit) ==
    /\ i >= 1
    /\ i + Len(lit) - 1 <= Len(s)
    /\ \A k \in 1..Len(lit) : ToLower(s[i + k - 1]) = ToLower(lit[k])

\* sub in s
Contains(s, sub) == \E i \in 1..(Len(s) - Len(sub) + 1) : StartsAt(s, i, sub)

\* s[a-1 : b-1] of Python for 1-based a and exclusive b
Slice(s, a, b) == SubSeq(s, a, b - 1)

\* s.replace(old, new) for a non-empty old: every occurrence, left to right
RECURSIVE ReplaceFrom(_, _, _, _)
ReplaceFrom(s, i, old, new) ==
    LET occ == {p \in i..Len(s) : StartsAt(s, p, old)}
    IN  IF occ = {} THEN SubSeq(s, i, Len(s))
        ELSE SubSeq(s, i, Min(occ) - 1) \o new \o ReplaceFrom(s, Min(occ) + Len(old), old, new)

Replace(s, old, new) == ReplaceFrom(s, 1, old, new)

\* s.strip()
Strip(s) ==
    LET keep == {i \in 1..Len(s) : ~IsSpace(s[i])}
    IN  IF keep = {} THEN <<>> ELSE SubSeq(s, Min(keep), Max(keep))

\* re.sub(r'\s+', ' ', s): a run of white space becomes one blank
CollapseSpaces(s) ==
    LET kept == SelectSeq([i \in 1..Len(s) |-> i],
                          LAMBDA i : ~(IsSpace(s[i]) /\ i > 1 /\ IsSpace(s[i - 1])))
    IN  [k \in 1..Len(kept) |-> IF IsSpace(s[kept[k]]) THEN 32 ELSE s[kept[k]]]

\* re.sub(r'\D', '', s)
DigitsOf(s) == SelectSeq(s, IsDigit)

\* s.isdigit()
IsDigitStr(s) == Len(s) > 0 /\ \A i \in 1..Len(s) : IsDigit(s[i])

\* " ".join(texts)
RECURSIVE JoinSpace(_)
JoinSpace(texts) ==
    IF texts = <<>> THEN <<>>
    ELSE IF Len(texts) = 1 THEN texts[1]
    ELSE texts[1] \o <<32>> \o JoinSpace(Tail(texts))

\* s.split('-')
RECURSIVE SplitDashFrom(_, _)
SplitDashFrom(s, i) ==
    LET dashes == {p \in i..Len(s) : s[p] = 45}
    IN  IF dashes = {} THEN << SubSeq(s, i, Len(s)) >>
        ELSE << SubSeq(s, i, Min(dashes) - 1) >> \o SplitDashFrom(s, Min(dashes) + 1)

SplitDash(s) == SplitDashFrom(s, 1)

\* the concatenation of the sequences of a sequence
RECURSIVE Flatten(_)
Flatten(seqs) == IF seqs = <<>> THEN <<>> ELSE Head(seqs) \o Flatten(Tail(seqs))

\* key a < key b for keys that are pairs, compared like Python tuples
KeyLess(a, b) == a[1] < b[1] \/ (a[1] = b[1] /\ a[2] < b[2])

\* sorted(seq, key): insertion of x, whose key is kx, into a sorted list of
\* [key, item]; Python's sort is stable, so x goes behind equal keys
RECURSIVE InsertSorted(_, _)
InsertSorted(sorted, x) ==
    IF sorted = <<>> THEN <<x>>
    ELSE IF KeyLess(x.key, Head(sorted).key) THEN <<x>> \o sorted
    ELSE <<Head(sorted)>> \o InsertSorted(Tail(sorted), x)

RECURSIVE SortKeyed(_)
SortKeyed(q) ==
    IF q = <<>> THEN <<>>
    ELSE InsertSorted(SortKeyed(SubSeq(q, 1, Len(q) - 1)), q[Len(q)])

\* sorted(seq, key) where keys[i] is the key of seq[i]
StableSort(seq, keys) ==
    LET sorted == SortKeyed([i \in 1..Len(seq) |-> [key |-> keys[i], item |-> seq[i]]])
    IN  [i \in 1..Len(sorted) |-> sorted[i].item]

-----------------------------------------------------------------------------
(* The regular expressions (schedule_parser.py:9-21)                       *)

NoMatch == [s |-> 0, e |-> 0]

\* the match that starts at i and ends before e; e = 0 stands for no match
MatchTo(i, e) == IF e = 0 THEN NoMatch ELSE [s |-> i, e |-> e]

\* the end of the first of two alternatives that matched
FirstNonZero(a, b) == IF a # 0 THEN a ELSE b

MinOrZero(S) == IF S = {} THEN 0 ELSE Min(S)

\* the character classes of the patterns
IsClass(cls, c) ==
    CASE cls = "digit" -> IsDigit(c)
      [] cls = "upper" -> IsUpperAYa(c)
      [] cls = "lower" -> IsLowerCyr(c)
      [] cls = "space" -> IsSpace(c)
      [] cls = "word" -> IsWordChar(c)
      [] cls = "cyr" -> c \in 1072..1103 \/ c \in 1040..1071
      [] cls = "timesep" -> c = 58 \/ c = 46

\* the length of the longest run of characters of a class at s[from:]
RunLen(s, from, cls) ==
    IF from < 1 \/ from > Len(s) THEN 0
    ELSE Min({p \in from..Len(s) : ~IsClass(cls, s[p])} \cup {Len(s) + 1}) - from

CharIs(s, i, c) == i >= 1 /\ i <= Len(s) /\ s[i] = c
CharIn(s, i, cls) == i >= 1 /\ i <= Len(s) /\ IsClass(cls, s[i])

\* [:.]\d{2} at i
TimeTail(t, i) == CharIn(t, i, "timesep") /\ CharIn(t, i + 1, "digit") /\ CharIn(t, i + 2, "digit")

\* TIME_PATTERN.match(text): (\d{1,2}[:.]\d{2}) at the start of the text
TimeMatch(t) ==
    /\ CharIn(t, 1, "digit")
    /\ \/ (CharIn(t, 2, "digit") /\ TimeTail(t, 3))
       \/ TimeTail(t, 2)

\* The alternatives of TYPE_PATTERN other than экз.*?, in the order of the
\* pattern; кcр is spelled with the Latin letter c (U+0063) in the source.
TypeWords == << <<1083, 1077, 1082>>, <<1087, 1088, 1072, 1082>>, <<1089, 1077, 1084>>, <<1083, 1072, 1073>>, <<1082, 99, 1088>>, <<1079, 1072, 1095, 1077, 1090>>, <<1092>>, <<1089, 1077, 1084, 1080, 1085, 1072, 1088>> >>
        \*      лек    прак    сем    лаб    кcр    зачет    ф    семинар
TypeExam == <<1101, 1082, 1079>>     \* экз

\* the ends of the matches at i of "(" + a fixed alternative + ")".  The
\* alternative must be followed at once by ")", so at most one of them matches.
TypeFixedEnds(s, i) ==
    {i + 2 + Len(TypeWords[k]) : k \in {j \in 1..Len(TypeWords) :
        /\ StartsAtIgnoreCase(s, i + 1, TypeWords[j])
        /\ CharIs(s, i + 1 + Len(TypeWords[j]), 41)}}

\* the ends that "(" + экз.*? + ")" can reach from i: .*? takes characters
\* other than a newline, the fewest first
TypeExamEnds(s, i) ==
    IF StartsAtIgnoreCase(s, i + 1, TypeExam)
    THEN {q + 1 : q \in {r \in (i + 4)..Len(s) :
                            s[r] = 41 /\ \A k \in (i + 4)..(r - 1) : s[k] # 10}}
    ELSE {}

\* TYPE_PATTERN anchored at i (re.IGNORECASE):
\* \((лек|прак|сем|лаб|кcр|зачет|экз.*?|ф|семинар)\)
\* No fixed alternative starts like экз: the order of the alternatives
\* decides nothing.
TypeAt(s, i) ==
    IF ~CharIs(s, i, 40) THEN NoMatch
    ELSE MatchTo(i, FirstNonZero(MinOrZero(TypeFixedEnds(s, i)), MinOrZero(TypeExamEnds(s, i))))

\* pattern.search: the match at the leftmost position that has one; at[p] is
\* the match anchored at p
FirstMatch(at) ==
    LET found == {p \in DOMAIN at : at[p] # NoMatch}
    IN  IF found = {} THEN NoMatch ELSE at[Min(found)]

\* TYPE_PATTERN.search(text)
TypeSearch(s) == FirstMatch([p \in 1..Len(s) |-> TypeAt(s, p)])

\* \b at position i: exactly one of s[i-1], s[i] is a word character
WordBoundary(s, i) == CharIn(s, i - 1, "word") # CharIn(s, i, "word")

RoomSK == <<1089, 47, 1082>>     \* с/к
RoomSZ == <<1089, 47, 1079>>     \* с/з
RoomAud == <<1072, 1091, 1076>>    \* ауд

\* the first of the ends that stands at a word boundary, or 0
FirstBoundary(s, ends) ==
    LET good == {k \in 1..Len(ends) : WordBoundary(s, ends[k])}
    IN  IF good = {} THEN 0 ELSE ends[Min(good)]

\* \d{3,4}[а-я]? from i, when it took k digits: with and without the letter
RoomDigitEnds(s, i, k) ==
    IF CharIn(s, i + k, "cyr") THEN <<i + k + 1, i + k>> ELSE <<i + k>>

\* the ends \d{3,4}[а-я]? can reach from i when nd digits stand there
RoomNumberEnds(s, i, nd) ==
    (IF nd >= 4 THEN RoomDigitEnds(s, i, 4) ELSE <<>>)
    \o (IF nd >= 3 THEN RoomDigitEnds(s, i, 3) ELSE <<>>)

\* ROOM_PATTERN anchored at i (re.IGNORECASE):
\* \b(\d{3,4}[а-я]?|с/к|с/з|ауд\.?)\b
\* The ends the pattern can reach from i, in the order backtracking tries
\* them; the first one that stands at a word boundary is the match.
RoomAt(s, i) ==
    LET sk == IF StartsAtIgnoreCase(s, i, RoomSK) THEN <<i + 3>> ELSE <<>>
        sz == IF StartsAtIgnoreCase(s, i, RoomSZ) THEN <<i + 3>> ELSE <<>>
        aud == IF StartsAtIgnoreCase(s, i, RoomAud)
               THEN (IF CharIs(s, i + 3, 46) THEN <<i + 4, i + 3>> ELSE <<i + 3>>)
               ELSE <<>>
    IN  IF WordBoundary(s, i)
        THEN MatchTo(i, FirstBoundary(s, RoomNumberEnds(s, i, RunLen(s, i, "digit")) \o sk \o sz \o aud))
        ELSE NoMatch

\* the second half of TEACHER_PATTERN anchored at i:
\* (?:[A-ЯЁ]\.\s?[A-ЯЁ]\.|[A-ЯЁ][а-яё]+); the position after it, or 0
TeacherTailEnd(s, i) ==
    IF ~CharIn(s, i, "upper") THEN 0
    ELSE IF CharIs(s, i + 1, 46) /\ CharIn(s, i + 2, "space")
            /\ CharIn(s, i + 3, "upper") /\ CharIs(s, i + 4, 46) THEN i + 5
    ELSE IF CharIs(s, i + 1, 46)
            /\ CharIn(s, i + 2, "upper") /\ CharIs(s, i + 3, 46) THEN i + 4
    ELSE IF CharIn(s, i + 1, "lower") THEN i + 1 + RunLen(s, i + 1, "lower")
    ELSE 0

\* the last entry of ends that is not 0, or 0
LastNonZero(ends) ==
    LET ok == {k \in DOMAIN ends : ends[k] # 0}
    IN  IF ok = {} THEN 0 ELSE ends[Max(ok)]

\* \s+ at i followed by the second half: the longest run of white space
\* after which the second half matches (greedy, backtracking); 0 if none
TeacherGapEnd(s, i) ==
    LastNonZero([k \in 1..RunLen(s, i, "space") |-> TeacherTailEnd(s, i + k)])

\* TEACHER_PATTERN after the first [A-ЯЁ][а-яё]+, which ends before q: the
\* hyphenated part is tried first and given up if the rest fails
TeacherRestEnd(s, q) ==
    FirstNonZero(IF CharIs(s, q, 45) /\ CharIn(s, q + 1, "upper") /\ CharIn(s, q + 2, "lower")
                 THEN TeacherGapEnd(s, q + 2 + RunLen(s, q + 2, "lower"))
                 ELSE 0,
                 TeacherGapEnd(s, q))

\* TEACHER_PATTERN anchored at i (case-sensitive):
\* ([A-ЯЁ][а-яё]+(?:-[A-ЯЁ][а-яё]+)?\s+(?:[A-ЯЁ]\.\s?[A-ЯЁ]\.|[A-ЯЁ][а-яё]+))
\* A run of [а-яё] is followed by "-" or white space, which are not in
\* [а-яё], so only the longest run can be continued.
TeacherAt(s, i) ==
    IF ~(CharIn(s, i, "upper") /\ CharIn(s, i + 1, "lower")) THEN NoMatch
    ELSE MatchTo(i, TeacherRestEnd(s, i + 1 + RunLen(s, i + 1, "lower")))

\* pattern.finditer: the matches from position i on, leftmost first, each
\* search resuming where the previous match ended; at[p] is the match
\* anchored at p
RECURSIVE FindIter(_, _)
FindIter(at, i) ==
    LET found == {p \in DOMAIN at : p >= i /\ at[p] # NoMatch}
    IN  IF found = {} THEN <<>>
        ELSE <<at[Min(found)]>> \o FindIter(at, at[Min(found)].e)

\* matches[-1] if matches else no match
LastOf(matches) == IF matches = <<>> THEN NoMatch ELSE matches[Len(matches)]

\* list(ROOM_PATTERN.finditer(text))[-1]
RoomMatch(s) == LastOf(FindIter([p \in 1..Len(s) |-> RoomAt(s, p)], 1))

\* list(TEACHER_PATTERN.finditer(text))[-1]
TeacherMatch(s) == LastOf(FindIter([p \in 1..Len(s) |-> TeacherAt(s, p)], 1))

-----------------------------------------------------------------------------
(* _spatial_text_parser (schedule_parser.py:239-303)                       *)

TypePrak == <<1055, 1088, 1072, 1082>>          \* Прак
TypeLecture == <<1051, 1077, 1082, 1094, 1080, 1103>>     \* Лекция
TypeSeminar == <<1057, 1077, 1084, 1080, 1085, 1072, 1088>>    \* Семинар
TypeLab == <<1051, 1072, 1073, 1072>>           \* Лаба

\* lines 252-254: l_type for val = tm.group(1).lower()
LessonTypeOf(val) ==
    IF Contains(val, <<1083, 1077, 1082>>) THEN TypeLecture
    ELSE IF Contains(val, <<1089, 1077, 1084>>) THEN TypeSeminar
    ELSE IF Contains(val, <<1083, 1072, 1073>>) THEN TypeLab
    ELSE TypePrak

\* lines 248-254: l_type, for the match tm of TYPE_PATTERN in s
LessonType(s, tm) ==
    IF tm = NoMatch THEN TypePrak ELSE LessonTypeOf(Lower(Slice(s, tm.s + 1, tm.e - 1)))

\* line 255: text.replace(tm.group(0), " ")
WithoutType(s, tm) ==
    IF tm = NoMatch THEN s ELSE Replace(s, Slice(s, tm.s, tm.e), <<32>>)

\* text[:m.start()] + text[m.end():]
Cut(s, m) == IF m = NoMatch THEN s ELSE Slice(s, 1, m.s) \o Slice(s, m.e, Len(s) + 1)

\* m.group(0), or "" without a match
Group0(s, m) == IF m = NoMatch THEN <<>> ELSE Slice(s, m.s, m.e)

\* lines 282-285: the subject or, if it is shorter than 3, a label
SubjectOrLabel(subject, low) ==
    IF Len(subject) < 3
    THEN IF Contains(low, <<1072, 1085, 1075, 1083>>) THEN <<1048, 1085, 1086, 1089, 1090, 1088, 1072, 1085, 1085, 1099, 1081, 32, 1103, 1079, 1099, 1082>>
         ELSE IF Contains(low, <<1092, 1080, 1079>>) THEN <<1060, 1080, 1079, 1082, 1091, 1083, 1100, 1090, 1091, 1088, 1072>>
         ELSE <<1047, 1072, 1085, 1103, 1090, 1080, 1077>>
    ELSE subject

\* lines 278-285: the subject left after the subtraction
SubjectOf(rest, original_text) ==
    SubjectOrLabel(Strip(CollapseSpaces(Strip(Replace(Replace(rest, <<8212>>, <<>>), <<45>>, <<>>)))),
                   Lower(original_text))

\* lines 288-293: subgroup for low = original_text.lower(); None is <<>>
SubgroupOfLow(low) ==
    IF Contains(low, <<1072, 1085, 1075, 1083>>) THEN <<1040, 1085, 1075, 1083, 1080, 1081, 1089, 1082, 1080, 1081>>
    ELSE IF Contains(low, <<1085, 1077, 1084>>) THEN <<1053, 1077, 1084, 1077, 1094, 1082, 1080, 1081>>
    ELSE IF Contains(low, <<1092, 1088>>) THEN <<1060, 1088, 1072, 1085, 1094, 1091, 1079, 1089, 1082, 1080, 1081>>
    ELSE IF Contains(low, <<1082, 1080, 1090>>) THEN <<1050, 1080, 1090, 1072, 1081, 1089, 1082, 1080, 1081>>
    ELSE <<>>

SubgroupOf(original_text) == SubgroupOfLow(Lower(original_text))

\* LessonItem (models.py:6-12) declares no subgroup field, and pydantic
\* ignores a keyword that is no field: the subgroup passed at
\* schedule_parser.py:302 is not part of the item.
LessonItem(subject, type, teacher, room, time_start, time_end, subgroup) ==
    [subject |-> subject, type |-> type, teacher |-> teacher, room |-> room,
     time_start |-> time_start, time_end |-> time_end]

\* lines 268-303, for the text t2 left after the room was cut out and the
\* match tm of the teacher in it
ParseTeacher(original_text, l_type, room, t2, tm) ==
    << LessonItem(SubjectOf(Cut(t2, tm), original_text),
                  l_type,
                  Strip(Group0(t2, tm)),
                  room,
                  <<>>, <<>>,
                  SubgroupOf(original_text)) >>

\* lines 266-303, for the text t2 left after the room was cut out
ParseAfterRoom(original_text, l_type, room, t2) ==
    ParseTeacher(original_text, l_type, room, t2, TeacherMatch(t2))

\* lines 261-303, for the text t1 left after the type was cut out and the
\* last match rm of the room in it
ParseRoom(original_text, l_type, t1, rm) ==
    ParseAfterRoom(original_text, l_type, Group0(t1, rm), Cut(t1, rm))

\* lines 257-303, for the text t1 left after the type was cut out
ParseAfterType(original_text, l_type, t1) ==
    ParseRoom(original_text, l_type, t1, RoomMatch(t1))

\* lines 248-303, for the stripped text t0 and the match tm of the type in it
ParseType(original_text, t0, tm) ==
    ParseAfterType(original_text, LessonType(t0, tm), WithoutType(t0, tm))

\* lines 247-303, for the stripped text t0
ParseStripped(original_text, t0) == ParseType(original_text, t0, TypeSearch(t0))

SpatialTextParser(original_text) ==
    ParseStripped(original_text, Strip(Replace(original_text, <<10>>, <<32>>)))

-----------------------------------------------------------------------------
(* One page of parse_schedule_pdf (schedule_parser.py:32-223)              *)
(* A word of page.extract_words is [text, x0, x1, top, bottom]; a page is  *)
(* [width, height, words].                                                 *)

HeaderLimit == 200          \* w['top'] < 200
FirstColumnOffset == 100    \* g['center'] - 100
RowTolerance == 15          \* abs(t['y'] - y_center) < 15
RowMargin == 5              \* t['top'] - 5
LineBand == 5               \* int(w['top'] / 5)
PagesPerCourse == 2         \* (course - 1) * 2, start_page + 2

\* Variants of steps of the source, against which the properties below are
\* contrasted: a comparison of whole items instead of the one of line 219,
\* line 29 without max(0, ...), lines 67-69 without the skip, and columns of
\* a fixed width around the anchor instead of lines 78-88.
IsDuplicateWhole(existing, l) == existing = l
StartPageUnclamped(c) == (c - 1) * PagesPerCourse
NoGroupsNever(anchors) == FALSE
ColumnsFixedWidth(anchors, width) ==
    [i \in 1..Len(anchors) |->
        [name |-> anchors[i].name,
         x0q |-> 2 * anchors[i].center2 - 4 * FirstColumnOffset,
         x1q |-> 2 * anchors[i].center2 + 4 * FirstColumnOffset]]

Abs(x) == IF x < 0 THEN -x ELSE x

Gruppa == <<1075, 1088, 1091, 1087, 1087, 1072>>     \* группа

\* header_words = [w for w in words if w['top'] < 200]
HeaderWords(words) == SelectSeq(words, LAMBDA w : w.top < HeaderLimit)

\* the anchors the loop body of lines 47-65 appends for header word i.
\* The branch for the fused spelling is the elif of "if i + 1 < len(...)":
\* it runs only for the last header word.
AnchorsOfWord(header_words, i) ==
    IF ~Contains(Lower(header_words[i].text), Gruppa) THEN <<>>
    ELSE IF i + 1 <= Len(header_words)
    THEN IF IsDigitStr(header_words[i + 1].text)
         THEN << [name |-> header_words[i + 1].text,
                  center2 |-> header_words[i + 1].x0 + header_words[i + 1].x1] >>
         ELSE <<>>
    ELSE IF Len(header_words[i].text) > 6
            /\ \E k \in 1..Len(header_words[i].text) : IsDigit(Lower(header_words[i].text)[k])
    THEN << [name |-> DigitsOf(Lower(header_words[i].text)),
             center2 |-> header_words[i].x0 + header_words[i].x1] >>
    ELSE <<>>

\* group_anchors after the loop of lines 47-65 over header_words
AnchorsOfHeader(header_words) ==
    Flatten([i \in 1..Len(header_words) |-> AnchorsOfWord(header_words, i)])

\* group_anchors after the loop of lines 47-65
GroupAnchors(words) == AnchorsOfHeader(HeaderWords(words))

\* if not group_anchors: continue
NoGroups(anchors) == anchors = <<>>

\* group_anchors.sort(key=lambda g: g['center'])
SortedAnchors(anchors) ==
    StableSort(anchors, [i \in 1..Len(anchors) |-> <<anchors[i].center2, 0>>])

\* columns (lines 76-94) of the sorted anchors: x0q and x1q are 4 * x0, 4 * x1
Columns(anchors, width) ==
    [i \in 1..Len(anchors) |->
        [name |-> anchors[i].name,
         x0q |-> IF i = 1 THEN 2 * anchors[i].center2 - 4 * FirstColumnOffset
                 ELSE anchors[i - 1].center2 + anchors[i].center2,
         x1q |-> IF i = Len(anchors) THEN 4 * width
                 ELSE anchors[i].center2 + anchors[i + 1].center2]]

\* lines 108-123 for a word of time text whose centre is y2 / 2: near are
\* the anchors within the tolerance, and the first of them takes the word
JoinTimeWord(time_anchors, w, y2, near) ==
    IF near = {}
    THEN Append(time_anchors, [y2 |-> y2, top |-> w.top, text |-> w.text, x_max |-> w.x1])
    ELSE IF w.x0 > time_anchors[Min(near)].x_max
    THEN [time_anchors EXCEPT ![Min(near)] =
             [@ EXCEPT !.text = @ \o <<45>> \o w.text, !.x_max = w.x1]]
    ELSE time_anchors

\* the body of the loop of lines 101-123 for one word; y2 is 2 * y
AddTimeWord(time_anchors, w) ==
    IF ~TimeMatch(w.text) THEN time_anchors
    ELSE JoinTimeWord(time_anchors, w, w.top + w.bottom,
                      {k \in 1..Len(time_anchors) :
                          Abs(time_anchors[k].y2 - (w.top + w.bottom)) < 2 * RowTolerance})

\* time_anchors after the loop of lines 101-123 over the first n words
RECURSIVE CollectTimeAnchors(_, _)
CollectTimeAnchors(words, n) ==
    IF n = 0 THEN <<>> ELSE AddTimeWord(CollectTimeAnchors(words, n - 1), words[n])

\* time_anchors.sort(key=lambda t: t['y'])
SortByY(time_anchors) ==
    StableSort(time_anchors, [i \in 1..Len(time_anchors) |-> <<time_anchors[i].y2, 0>>])

TimeAnchors(words) == SortByY(CollectTimeAnchors(words, Len(words)))

\* lines 140-150: the row of the parts of the time text
RowOf(time_parts, row_top, row_bottom) ==
    [start |-> time_parts[1],
     end |-> IF Len(time_parts) > 1 THEN time_parts[2] ELSE <<>>,
     top |-> row_top,
     bottom |-> row_bottom]

\* rows (lines 129-150) of the sorted time anchors
Rows(time_anchors, height) ==
    [i \in 1..Len(time_anchors) |->
        RowOf(SplitDash(Replace(time_anchors[i].text, <<46>>, <<58>>)),
              time_anchors[i].top - RowMargin,
              IF i < Len(time_anchors) THEN time_anchors[i + 1].top - RowMargin ELSE height)]

DayNames == << <<1087, 1086, 1085, 1077, 1076, 1077, 1083, 1100, 1085, 1080, 1082>>, <<1074, 1090, 1086, 1088, 1085, 1080, 1082>>, <<1089, 1088, 1077, 1076, 1072>>, <<1095, 1077, 1090, 1074, 1077, 1088, 1075>>, <<1087, 1103, 1090, 1085, 1080, 1094, 1072>>, <<1089, 1091, 1073, 1073, 1086, 1090, 1072>> >>
        \*     понедельник    вторник    среда    четверг    пятница    суббота
Monday == <<1055, 1086, 1085, 1077, 1076, 1077, 1083, 1100, 1085, 1080, 1082>>     \* Понедельник

InRow(w, row) == w.top >= row.top /\ w.bottom <= row.bottom

\* day_words (lines 162-165)
DayWords(words, row, cols) ==
    SelectSeq(words, LAMBDA w : InRow(w, row) /\ 4 * w.x1 < cols[1].x0q)

\* the values lines 167-171 assign to current_day, in order
DayHits(day_words) ==
    Flatten([i \in 1..Len(day_words) |->
        Flatten([d \in 1..Len(DayNames) |->
            IF Contains(Lower(day_words[i].text), DayNames[d])
            THEN << Capitalize(DayNames[d]) >> ELSE <<>>])])

\* the last of the assignments stays
LastHit(current_day, hits) == IF hits = <<>> THEN current_day ELSE hits[Len(hits)]

\* current_day after lines 162-171
DayAfter(current_day, words, row, cols) ==
    LastHit(current_day, DayHits(DayWords(words, row, cols)))

\* row_words (lines 174-175)
RowWords(words, row) == SelectSeq(words, LAMBDA w : InRow(w, row))

\* the membership test of lines 181-192: the centre of the word lies in the
\* column, or the word reaches over both edges of the column
InColumn(w, col) ==
    \/ col.x0q <= 2 * (w.x0 + w.x1) /\ 2 * (w.x0 + w.x1) < col.x1q
    \/ 4 * w.x0 < col.x0q /\ 4 * w.x1 > col.x1q

\* cell_words (lines 179-192)
CellWords(row_words, col) == SelectSeq(row_words, LAMBDA w : InColumn(w, col))

\* " ".join([w['text'] for w in cell_words])
JoinWords(cell_words) == JoinSpace([i \in 1..Len(cell_words) |-> cell_words[i].text])

\* cell_words.sort(key=lambda w: (int(w['top'] / 5), w['x0'])), then the join
FullText(cell_words) ==
    JoinWords(StableSort(cell_words, [i \in 1..Len(cell_words) |->
                  <<cell_words[i].top \div LineBand, cell_words[i].x0>>]))

\* the filter of line 203
IsNoise(full_text) == Len(full_text) < 3 \/ Contains(Lower(full_text), <<1089, 47, 1082>>)

GroupPrefix == <<1043, 1088, 1091, 1087, 1087, 1072, 32>>    \* "Группа "

\* lines 209-215: the lessons of a cell, each with the group key, the day
\* and the times of its row
Stamped(parsed, row, col, current_day) ==
    [i \in 1..Len(parsed) |->
        [g_key |-> GroupPrefix \o col.name,
         day |-> current_day,
         lesson |-> [parsed[i] EXCEPT !.time_start = row.start, !.time_end = row.end]]]

\* lines 203-215 for the text of a cell
TextEntries(full_text, row, col, current_day) ==
    IF IsNoise(full_text) THEN <<>>
    ELSE Stamped(SpatialTextParser(full_text), row, col, current_day)

\* lines 194-215 for the words of a cell
WordsEntries(cell_words, row, col, current_day) ==
    IF cell_words = <<>> THEN <<>>
    ELSE TextEntries(FullText(cell_words), row, col, current_day)

\* what one cell adds (lines 177-215)
CellEntries(row_words, row, col, current_day) ==
    WordsEntries(CellWords(row_words, col), row, col, current_day)

\* what the rows from r on add, in the order of the loops of lines 159-223
RECURSIVE EntriesFromRow(_, _, _, _, _)
RECURSIVE RowEntries(_, _, _, _, _, _)

\* row r, whose day is current_day, and the rows after it
RowEntries(words, rws, cols, r, current_day, row_words) ==
    Flatten([c \in 1..Len(cols) |-> CellEntries(row_words, rws[r], cols[c], current_day)])
    \o EntriesFromRow(words, rws, cols, r + 1, current_day)

EntriesFromRow(words, rws, cols, r, current_day) ==
    IF r > Len(rws) THEN <<>>
    ELSE RowEntries(words, rws, cols, r,
                    DayAfter(current_day, words, rws[r], cols),
                    RowWords(words, rws[r]))

\* current_day = "Понедельник", then the loop over the rows
PageEntriesOf(words, rws, cols) == EntriesFromRow(words, rws, cols, 1, Monday)

\* lines 76-223 of a page with group anchors: columns[0] at line 162 raises
\* IndexError when there are rows and no columns
Grid(pg, anchors, cols, rws) ==
    [skipped |-> FALSE,
     page |-> pg,
     group_anchors |-> anchors,
     columns |-> cols,
     rows |-> rws,
     raises |-> cols = <<>> /\ rws # <<>>,
     entries |-> IF cols = <<>> THEN <<>> ELSE PageEntriesOf(pg.words, rws, cols)]

\* lines 67-223 of a page whose header gave group_anchors
AnalysisOf(pg, anchors) ==
    IF NoGroups(anchors)
    THEN [skipped |-> TRUE, page |-> pg, group_anchors |-> anchors, columns |-> <<>>,
          rows |-> <<>>, raises |-> FALSE, entries |-> <<>>]
    ELSE Grid(pg, SortedAnchors(anchors),
              Columns(SortedAnchors(anchors), pg.width),
              Rows(TimeAnchors(pg.words), pg.height))

\* lines 34-223 of one page: the lessons it adds, in order
Analysis(pg) == AnalysisOf(pg, GroupAnchors(pg.words))

\* the comparison of line 219
IsDuplicate(existing, l) ==
    existing.subject = l.subject /\ existing.time_start = l.time_start

\* schedule_by_group[g_key][current_day] of lines 210-211: the position of
\* the bucket in schedule, or 0
BucketOf(schedule, g_key, day) ==
    MinOrZero({k \in 1..Len(schedule) : schedule[k].g_key = g_key /\ schedule[k].day = day})

\* lines 216-223 for one lesson and its bucket k
AddToBucket(schedule, e, k) ==
    IF k = 0
    THEN Append(schedule, [g_key |-> e.g_key, day |-> e.day, lessons |-> <<e.lesson>>])
    ELSE IF \E j \in 1..Len(schedule[k].lessons) : IsDuplicate(schedule[k].lessons[j], e.lesson)
    THEN schedule
    ELSE [schedule EXCEPT ![k].lessons = Append(@, e.lesson)]

\* lines 209-223 for one lesson: buckets [g_key, day, lessons] are kept in
\* the order of creation
AddLesson(schedule, e) == AddToBucket(schedule, e, BucketOf(schedule, e.g_key, e.day))

\* lines 209-223 for the first n lessons of a page, in order
RECURSIVE AddLessons(_, _, _)
AddLessons(schedule, entries, n) ==
    IF n = 0 THEN schedule ELSE AddLesson(AddLessons(schedule, entries, n - 1), entries[n])

DOrder == [i \in 1..Len(DayNames) |-> Capitalize(DayNames[i])]

\* d_order.index(x) if x in d_order else 9 (0-based in the source)
DayIndex(day) ==
    IF \E i \in 1..Len(DOrder) : DOrder[i] = day
    THEN (CHOOSE i \in 1..Len(DOrder) : DOrder[i] = day) - 1
    ELSE 9

\* sorted(days.items(), key=...) for the buckets of one group
SortedDays(days) == StableSort(days, [i \in 1..Len(days) |-> <<DayIndex(days[i].day), 0>>])

\* lines 230-234 for one group
WeekOf(g_name, s_days) ==
    [g_name |-> g_name,
     week |-> [d \in 1..Len(s_days) |-> [day_name |-> s_days[d].day, lessons |-> s_days[d].lessons]]]

\* the positions of the buckets that open a group
FirstBuckets(schedule) ==
    SelectSeq([k \in 1..Len(schedule) |-> k],
              LAMBDA k : \A j \in 1..(k - 1) : schedule[j].g_key # schedule[k].g_key)

\* lines 229-234 for the groups that open at the positions first
WeeksOf(schedule, first) ==
    [i \in 1..Len(first) |->
        WeekOf(schedule[first[i]].g_key,
               SortedDays(SelectSeq(schedule, LAMBDA b : b.g_key = schedule[first[i]].g_key)))]

\* lines 226-237: groups in the order they were first stored, the days of
\* each group sorted by the order of the week
FinalOutput(schedule) == WeeksOf(schedule, FirstBuckets(schedule))

\* the bounds of pdf.pages[a:b] for a document of n pages
SliceBound(n, i) ==
    IF i < 0 THEN (IF i + n < 0 THEN 0 ELSE i + n)
    ELSE (IF i > n THEN n ELSE i)

\* pdf.pages[a:b] of a document of n pages, as 0-based page indices
PySlice(n, a, b) ==
    IF SliceBound(n, b) > SliceBound(n, a)
    THEN [k \in 1..(SliceBound(n, b) - SliceBound(n, a)) |-> SliceBound(n, a) + k - 1]
    ELSE <<>>

\* start_page = max(0, (course - 1) * 2)
StartPage(c) == Max({0, (c - 1) * PagesPerCourse})

\* pages = pdf.pages[start_page : start_page + 2]
SelectPages(n, start) == PySlice(n, start, start + PagesPerCourse)

-----------------------------------------------------------------------------
(* The pages the documents are made of.  A page is a header, the time      *)
(* words of the label area and the words of the grid.  With the header     *)
(* "Группа 13", "Группа 14" the columns are [170, 370) and [370, 600);     *)
(* with two time rows the rows are [295, 395) and [395, 800).              *)

W(t, x0, x1, top, bottom) == [text |-> t, x0 |-> x0, x1 |-> x1, top |-> top, bottom |-> bottom]

\* "Группа" "13" "Группа" "14"
HeaderSeparate ==
    << W(<<1043, 1088, 1091, 1087, 1087, 1072>>, 200, 250, 50, 60), W(<<49, 51>>, 260, 280, 50, 60),
       W(<<1043, 1088, 1091, 1087, 1087, 1072>>, 400, 450, 50, 60), W(<<49, 52>>, 460, 480, 50, 60) >>

\* "Группа13" "Группа14"
HeaderFused ==
    << W(<<1043, 1088, 1091, 1087, 1087, 1072, 49, 51>>, 230, 310, 50, 60), W(<<1043, 1088, 1091, 1087, 1087, 1072, 49, 52>>, 430, 510, 50, 60) >>

\* "Группа" "13" "Группа14"
HeaderMixed ==
    << W(<<1043, 1088, 1091, 1087, 1087, 1072>>, 200, 250, 50, 60), W(<<49, 51>>, 260, 280, 50, 60),
       W(<<1043, 1088, 1091, 1087, 1087, 1072, 49, 52>>, 430, 510, 50, 60) >>

\* "Расписание": no group marker
HeaderNone == << W(<<1056, 1072, 1089, 1087, 1080, 1089, 1072, 1085, 1080, 1077>>, 200, 300, 50, 60) >>

\* the words of HeaderSeparate, the right group first
HeaderReversed ==
    << W(<<1043, 1088, 1091, 1087, 1087, 1072>>, 400, 450, 50, 60), W(<<49, 52>>, 460, 480, 50, 60),
       W(<<1043, 1088, 1091, 1087, 1087, 1072>>, 200, 250, 50, 60), W(<<49, 51>>, 260, 280, 50, 60) >>

\* three groups: columns [170, 320), [320, 420), [420, 600)
HeaderThree ==
    << W(<<1043, 1088, 1091, 1087, 1087, 1072>>, 200, 250, 50, 60), W(<<49, 51>>, 260, 280, 50, 60),
       W(<<1043, 1088, 1091, 1087, 1087, 1072>>, 300, 350, 50, 60), W(<<49, 52>>, 360, 380, 50, 60),
       W(<<1043, 1088, 1091, 1087, 1087, 1072>>, 400, 450, 50, 60), W(<<49, 53>>, 460, 480, 50, 60) >>

\* 8.30 9.50 / 10.05 11.25
TimesTwoRows ==
    << W(<<56, 46, 51, 48>>, 20, 50, 300, 310), W(<<57, 46, 53, 48>>, 60, 90, 300, 310),
       W(<<49, 48, 46, 48, 53>>, 20, 50, 400, 410), W(<<49, 49, 46, 50, 53>>, 60, 90, 400, 410) >>

TimesNone == <<>>

\* a tall 8.30 (centre 330) above a small 10.05 (centre 310) that starts lower
TimesTall ==
    << W(<<56, 46, 51, 48>>, 20, 50, 300, 360), W(<<49, 48, 46, 48, 53>>, 20, 50, 305, 315) >>

\* the same time in both rows, no end time
TimesSame ==
    << W(<<56, 46, 51, 48>>, 20, 50, 300, 310), W(<<56, 46, 51, 48>>, 20, 50, 400, 410) >>

\* two-digit hours: 08:30 09.50 as two words, 10:05-11:25 as one word
TimesPadded ==
    << W(<<48, 56, 58, 51, 48>>, 20, 50, 300, 310), W(<<48, 57, 46, 53, 48>>, 60, 90, 300, 310),
       W(<<49, 48, 58, 48, 53, 45, 49, 49, 58, 50, 53>>, 20, 90, 400, 410) >>

\* row 1: a lecture in column 13 with the room on a second line, column 14 empty
\* row 2: a lesson in each column
BodyLecture(room) ==
    << W(<<40, 1083, 1077, 1082, 41>>, 180, 215, 300, 310), W(<<1042, 1099, 1089, 1096, 1072, 1103>>, 220, 260, 300, 310),
       W(<<1084, 1072, 1090, 1077, 1084, 1072, 1090, 1080, 1082, 1072>>, 265, 330, 300, 310),
       W(<<1048, 1074, 1072, 1085, 1086, 1074>>, 180, 220, 315, 325), W(<<1048, 46, 1048, 46>>, 225, 245, 315, 325),
       W(room, 250, 270, 315, 325),
       W(<<1048, 1089, 1090, 1086, 1088, 1080, 1103>>, 180, 230, 400, 410), W(<<1055, 1077, 1090, 1088, 1086, 1074>>, 235, 275, 400, 410),
       W(<<1055, 46, 1055, 46>>, 280, 300, 400, 410), W(<<50, 48, 53>>, 305, 325, 400, 410),
       W(<<1060, 1080, 1079, 1080, 1082, 1072>>, 380, 420, 400, 410), W(<<50, 48, 54>>, 425, 445, 400, 410) >>

\* a lesson in every cell, and the day word "Вторник" left of row 2
BodyFull ==
    << W(<<1055, 1088, 1072, 1074, 1086>>, 180, 215, 300, 310), W(<<49, 48, 49>>, 220, 240, 300, 310),
       W(<<1051, 1086, 1075, 1080, 1082, 1072>>, 380, 420, 300, 310), W(<<49, 48, 50>>, 425, 445, 300, 310),
       W(<<1042, 1090, 1086, 1088, 1085, 1080, 1082>>, 100, 160, 400, 410),
       W(<<1048, 1089, 1090, 1086, 1088, 1080, 1103>>, 180, 230, 400, 410), W(<<50, 48, 53>>, 235, 255, 400, 410),
       W(<<1060, 1080, 1079, 1080, 1082, 1072>>, 380, 420, 400, 410), W(<<50, 48, 54>>, 425, 445, 400, 410) >>

\* column 14 holds nothing but a weekday name that leaked into it
BodyWeekday ==
    << W(<<1055, 1088, 1072, 1074, 1086>>, 180, 215, 300, 310), W(<<49, 48, 49>>, 220, 240, 300, 310),
       W(<<1055, 1086, 1085, 1077, 1076, 1077, 1083, 1100, 1085, 1080, 1082>>, 380, 460, 300, 310) >>

\* the sports-hall marker alone, with a subject, and a text of two characters
BodyNoise ==
    << W(<<1089, 47, 1082>>, 180, 200, 300, 310),
       W(<<1060, 1080, 1079, 1082, 1091, 1083, 1100, 1090, 1091, 1088, 1072>>, 380, 450, 300, 310), W(<<1089, 47, 1082>>, 455, 475, 300, 310),
       W(<<1092>>, 180, 190, 400, 410), W(<<50>>, 195, 200, 400, 410),
       W(<<1060, 1080, 1079, 1080, 1082, 1072>>, 380, 420, 400, 410), W(<<50, 48, 54>>, 425, 445, 400, 410) >>

BodyEmpty == <<>>

\* the same subject in both rows of column 13, in different rooms
BodyRepeat ==
    << W(<<1055, 1088, 1072, 1074, 1086>>, 180, 215, 300, 310), W(<<49, 48, 49>>, 220, 240, 300, 310),
       W(<<1055, 1088, 1072, 1074, 1086>>, 180, 215, 400, 410), W(<<49, 48, 50>>, 220, 240, 400, 410) >>

\* one wide word ("keep_blank_chars" keeps the blanks inside a word) from
\* column 13 over column 14 into column 15
BodyWide ==
    << W(<<40, 1083, 1077, 1082, 41, 32, 1042, 1099, 1089, 1096, 1072, 1103, 32, 1084, 1072, 1090, 1077, 1084, 1072, 1090, 1080, 1082, 1072>>, 180, 440, 300, 310),
       W(<<1060, 1080, 1079, 1080, 1082, 1072>>, 430, 470, 400, 410), W(<<50, 48, 54>>, 475, 495, 400, 410) >>

MakePage(header, times, body) ==
    [width |-> 600, height |-> 800, words |-> header \o times \o body]

PageLib ==
    << MakePage(HeaderSeparate, TimesTwoRows, BodyLecture(<<51, 48, 49>>)),
       MakePage(HeaderSeparate, TimesTwoRows, BodyLecture(<<51, 48, 50>>)),
       MakePage(HeaderSeparate, TimesTwoRows, BodyFull),
       MakePage(HeaderSeparate, TimesTwoRows, BodyWeekday),
       MakePage(HeaderSeparate, TimesTwoRows, BodyNoise),
       MakePage(HeaderSeparate, TimesTwoRows, BodyEmpty),
       MakePage(HeaderSeparate, TimesNone, BodyFull),
       MakePage(HeaderSeparate, TimesTall, BodyLecture(<<51, 48, 49>>)),
       MakePage(HeaderSeparate, TimesSame, BodyRepeat),
       MakePage(HeaderFused, TimesTwoRows, BodyFull),
       MakePage(HeaderMixed, TimesTwoRows, BodyFull),
       MakePage(HeaderNone, TimesTwoRows, BodyFull),
       MakePage(HeaderNone, TimesNone, BodyEmpty),
       MakePage(HeaderReversed, TimesTwoRows, BodyFull),
       MakePage(HeaderThree, TimesTwoRows, BodyWide),
       MakePage(HeaderSeparate, TimesPadded, BodyFull) >>

PageIds == 1..Len(PageLib)

\* the analysis of every page of PageLib, computed once
PageAnalysis == [id \in PageIds |-> Analysis(PageLib[id])]

-----------------------------------------------------------------------------
(* parse_schedule_pdf as a state machine                                   *)

MaxPages == 4       \* the documents have 0..MaxPages pages
MaxCourse == 3      \* course is at most MaxCourse
NegCourses == 2     \* and at least -NegCourses

Idle == "idle"

TextIdle == parts = Idle /\ text = Idle /\ tpc = Idle /\ lessons = Idle

ServiceIdle ==
/\ ACTIVE_SCHEDULES = Idle /\ cache = Idle
    /\ calls = Idle /\ requests = Idle /\ response = Idle /\ refresher = Idle

\* no page was analysed yet
NoPage == [width |-> 0, height |-> 0, words |-> <<>>]

Init ==
    /\ openable \in BOOLEAN
    /\ n_pages \in 0..MaxPages
    /\ course \in (-NegCourses)..MaxCourse
    /\ pc = "open"
    /\ start_page = 0
    /\ pages = <<>>
    /\ pages_read = <<>>
    /\ page = NoPage
    /\ group_anchors = <<>>
    /\ columns = <<>>
    /\ rows = <<>>
    /\ schedule_by_group = <<>>
    /\ result = <<>>
    /\ TextIdle
    /\ ServiceIdle

\* line 27-30: pdfplumber.open raises on bytes that are no document;
\* otherwise the pages of the course are selected
Open ==
    /\ pc = "open"
    /\ IF openable
       THEN /\ start_page' = StartPage(course)
            /\ pages' = SelectPages(n_pages, StartPage(course))
            /\ pc' = "pages"
       ELSE /\ pc' = "raised"
            /\ UNCHANGED <<start_page, pages>>
    /\ UNCHANGED <<openable, n_pages, course, pages_read, pageVars, schedule_by_group, result>>
    /\ UNCHANGED <<textVars, serviceVars>>

\* lines 34-223 for a page whose analysis is a.  Without group anchors the
\* page is skipped and columns and rows stay as they were; columns[0] at
\* line 162 raises IndexError if a page with rows came that far without
\* columns.
AnalyzeAs(a) ==
    /\ page' = a.page
    /\ group_anchors' = a.group_anchors
    /\ IF a.skipped
       THEN UNCHANGED <<columns, rows, pc, schedule_by_group>>
       ELSE /\ columns' = a.columns
            /\ rows' = a.rows
            /\ IF a.raises
               THEN pc' = "raised" /\ UNCHANGED schedule_by_group
               ELSE /\ schedule_by_group' = AddLessons(schedule_by_group, a.entries, Len(a.entries))
                    /\ UNCHANGED pc

\* lines 32-223, one iteration of the page loop: the next selected page is
\* read (its content is any page of PageLib)
AnalyzePage ==
    /\ pc = "pages"
    /\ Len(pages_read) < Len(pages)
    /\ \E id \in PageIds :
        /\ pages_read' = Append(pages_read, id)
        /\ AnalyzeAs(PageAnalysis[id])
    /\ UNCHANGED <<openable, n_pages, course, start_page, pages, result>>
    /\ UNCHANGED <<textVars, serviceVars>>

\* lines 225-237
Output ==
    /\ pc = "pages"
    /\ Len(pages_read) = Len(pages)
    /\ result' = FinalOutput(schedule_by_group)
    /\ pc' = "done"
    /\ UNCHANGED <<openable, n_pages, course, start_page, pages, pages_read, pageVars,
                   schedule_by_group>>
    /\ UNCHANGED <<textVars, serviceVars>>

Next == Open \/ AnalyzePage \/ Output

Spec == Init /\ [][Next]_vars

-----------------------------------------------------------------------------
(* _spatial_text_parser on the texts of a cell                             *)

NoStaff == [teacher |-> <<>>, room |-> <<>>]

Markers == { <<>>, <<40, 1083, 1077, 1082, 41>>, <<40, 1087, 1088, 1072, 1082, 41>> }
Subjects == { <<1052, 1072, 1090, 1077, 1084, 1072, 1090, 1080, 1082, 1072>>, <<1042, 1099, 1089, 1096, 1072, 1103, 32, 1084, 1072, 1090, 1077, 1084, 1072, 1090, 1080, 1082, 1072>>, <<1048, 1085, 1086, 1089, 1090, 1088, 1072, 1085, 1085, 1099, 1081, 32, 1103, 1079, 1099, 1082>>, <<1040, 1085, 1075, 1083, 1080, 1081, 1089, 1082, 1080, 1081, 32, 1103, 1079, 1099, 1082>> }
Teachers == { <<>>, <<1048, 1074, 1072, 1085, 1086, 1074, 32, 1048, 46, 1048, 46>>, <<1055, 1077, 1090, 1088, 1086, 1074, 32, 1048, 46, 1048, 46>>, <<1050, 1091, 1079, 1100, 1084, 1080, 1085, 1072, 45, 1052, 1072, 1084, 1077, 1076, 1086, 1074, 1072, 32, 1040, 46, 1040, 46>> }
Rooms == { <<>>, <<51, 48, 49>>, <<50, 48, 53>>, <<49, 50, 48, 52>>, <<50, 48, 53, 1072>> }
SecondStaff == { NoStaff, [teacher |-> <<1057, 1080, 1076, 1086, 1088, 1086, 1074, 1072, 32, 1040, 46, 1040, 46>>, room |-> <<50, 48, 54>>] }

\* the cell text of the parts: the non-empty parts joined by blanks
TextOf(p) ==
    JoinSpace(SelectSeq(<<p.marker, p.subject, p.teacher, p.room,
                          p.second.teacher, p.second.room>>,
                        LAMBDA s : s # <<>>))

InitText ==
    /\ parts \in [marker : Markers, subject : Subjects, teacher : Teachers,
                  room : Rooms, second : SecondStaff]
    /\ text = TextOf(parts)
    /\ tpc = "call"
    /\ lessons = <<>>
    /\ openable = Idle /\ n_pages = Idle /\ course = Idle /\ pc = Idle
    /\ start_page = Idle /\ pages = Idle /\ pages_read = Idle
    /\ page = Idle /\ group_anchors = Idle /\ columns = Idle /\ rows = Idle
    /\ schedule_by_group = Idle /\ result = Idle
    /\ ServiceIdle

ParseText ==
    /\ tpc = "call"
    /\ lessons' = SpatialTextParser(text)
    /\ tpc' = "returned"
    /\ UNCHANGED <<parts, text>>
    /\ UNCHANGED <<parseVars, serviceVars>>

NextText == ParseText

SpecText == InitText /\ [][NextText]_vars

-----------------------------------------------------------------------------
(* Properties of parse_schedule_pdf                                        *)

\* the last iteration of the page loop went past line 69: columns and rows
\* are those of page
PageMapped == page # NoPage /\ ~NoGroups(group_anchors)

\* the words of the cell of row r and column c of page
CellOf(r, c) == CellWords(RowWords(page.words, rows[r]), columns[c])

\* what the pages ids add, in order
AllEntries(ids) == Flatten([i \in 1..Len(ids) |-> PageAnalysis[ids[i]].entries])

\* the schedule the lessons of entries give, inserted in order
Accumulated(entries) == AddLessons(<<>>, entries, Len(entries))

\* the pages among ids whose header gives a group anchor
WithAnchors(ids) == SelectSeq(ids, LAMBDA id : ~NoGroups(GroupAnchors(PageLib[id].words)))

\* the columns left of column c whose cell in row r is not empty and holds
\* the lecture marker (and is no noise)
LectureNeighbours(r, c) ==
    {n \in 1..(c - 1) :
        /\ CellOf(r, n) # <<>>
        /\ Contains(Lower(FullText(CellOf(r, n))), <<1083, 1077, 1082>>)
        /\ ~IsNoise(FullText(CellOf(r, n)))}

\* the group of column c has a lesson at the time of row r whose subject is
\* the one full_text gives
Received(r, c, full_text) ==
    \E k \in 1..Len(schedule_by_group) :
        /\ schedule_by_group[k].g_key = GroupPrefix \o columns[c].name
        /\ \E j \in 1..Len(schedule_by_group[k].lessons) :
              /\ schedule_by_group[k].lessons[j].time_start = rows[r].start
              /\ schedule_by_group[k].lessons[j].subject = SpatialTextParser(full_text)[1].subject

\* C1 (lecture-span inheritance): after a page was analysed, for every row
\* and every column whose cell holds no word, if a cell left of it in the
\* same row is not empty and holds the lecture marker, the group of the
\* column has a lesson at the time of the row built from the text of the
\* first such neighbour.
LectureSpanInheritance ==
    (PageMapped /\ pc # "raised") =>
        \A r \in 1..Len(rows) : \A c \in 1..Len(columns) :
            (CellOf(r, c) = <<>> /\ LectureNeighbours(r, c) # {})
                => Received(r, c, FullText(CellOf(r, Min(LectureNeighbours(r, c)))))

\* two entries meet in one bucket with the same subject and time_start
SameSlot(e, f) ==
    /\ e.g_key = f.g_key
    /\ e.day = f.day
    /\ e.lesson.subject = f.lesson.subject
    /\ e.lesson.time_start = f.lesson.time_start

NoRepeat(ls) ==
    \A i, j \in 1..Len(ls) :
        (ls[i].subject = ls[j].subject /\ ls[i].time_start = ls[j].time_start) => i = j

\* l is the lesson of the first of the entries for its bucket, subject and
\* time_start
FirstInserted(entries, g_key, day, l) ==
    \E i \in 1..Len(entries) :
        /\ entries[i] = [g_key |-> g_key, day |-> day, lesson |-> l]
        /\ \A j \in 1..(i - 1) : ~SameSlot(entries[j], entries[i])

\* the lesson of entry e is in the bucket of e in schedule_by_group
InSchedule(e) ==
    \E k \in 1..Len(schedule_by_group) :
        /\ schedule_by_group[k].g_key = e.g_key
        /\ schedule_by_group[k].day = e.day
        /\ \E j \in 1..Len(schedule_by_group[k].lessons) : schedule_by_group[k].lessons[j] = e.lesson

\* the lesson of entry e is in the bucket of e in the result
InResult(e) ==
    \E g \in 1..Len(result) : \E d \in 1..Len(result[g].week) :
        /\ result[g].g_name = e.g_key
        /\ result[g].week[d].day_name = e.day
        /\ \E j \in 1..Len(result[g].week[d].lessons) : result[g].week[d].lessons[j] = e.lesson

DedupOver(entries) ==
    /\ \A k \in 1..Len(schedule_by_group) :
          /\ NoRepeat(schedule_by_group[k].lessons)
          /\ \A j \in 1..Len(schedule_by_group[k].lessons) :
                FirstInserted(entries, schedule_by_group[k].g_key, schedule_by_group[k].day,
                              schedule_by_group[k].lessons[j])
    /\ \A g \in 1..Len(result) : \A d \in 1..Len(result[g].week) :
          /\ NoRepeat(result[g].week[d].lessons)
          /\ \A j \in 1..Len(result[g].week[d].lessons) :
                FirstInserted(entries, result[g].g_name, result[g].week[d].day_name,
                              result[g].week[d].lessons[j])
    /\ \A i \in 1..Len(entries) :
          (\A j \in 1..(i - 1) : ~SameSlot(entries[j], entries[i]))
              => /\ InSchedule(entries[i])
                 /\ pc = "done" => InResult(entries[i])

\* C2 (dedup invariant): whatever cells were inserted so far, no bucket of
\* schedule_by_group and no day of the result holds two lessons with the
\* same subject and the same time_start, every lesson kept is the first
\* one inserted for its bucket, subject and time_start, and every first
\* one is kept.
DedupInvariant == DedupOver(AllEntries(pages_read))

\* an entry of the second page differs from one of the first n entries, those
\* of the first page, of the same bucket, subject and time_start; the earlier
\* one is in the result and the later one is not
DedupCase(entries, n) ==
    \E i \in 1..n : \E j \in (n + 1)..Len(entries) :
        /\ SameSlot(entries[i], entries[j])
        /\ entries[i].lesson # entries[j].lesson
        /\ InResult(entries[i])
        /\ ~InResult(entries[j])

DedupWitness ==
    /\ pc = "done"
    /\ Len(pages_read) = PagesPerCourse
    /\ DedupCase(AllEntries(pages_read), Len(AllEntries(<<pages_read[1]>>)))

\* a fused marker such as "Группа13"
IsFusedMarker(w) ==
    Contains(Lower(w.text), Gruppa) /\ \E k \in 1..Len(w.text) : IsDigit(w.text[k])

\* the word "Группа" followed by a separate digit word
IsSeparateMarker(header_words, i) ==
    /\ Contains(Lower(header_words[i].text), Gruppa)
    /\ ~IsFusedMarker(header_words[i])
    /\ i < Len(header_words)
    /\ IsDigitStr(header_words[i + 1].text)

\* N: the number of group markers of a header
MarkerCount(header_words) ==
    Cardinality({i \in 1..Len(header_words) :
                    IsFusedMarker(header_words[i]) \/ IsSeparateMarker(header_words, i)})

\* the number of group columns mapped for page
MappedColumns == IF NoGroups(group_anchors) THEN 0 ELSE Len(columns)

\* C3 (column count invariant): for a page whose header holds N group
\* markers, separate or fused and in any order, exactly N group columns
\* are mapped.
ColumnCountInvariant ==
    page # NoPage => MappedColumns = MarkerCount(HeaderWords(page.words))

\* C4 (time ordering): the rows of a page are strictly increasing in top,
\* the bottom of each row is the top of the next one, and the bottom of
\* the last row is the height of the page.
TimeOrdering ==
    PageMapped =>
        /\ \A i \in 1..(Len(rows) - 1) :
              rows[i].top < rows[i + 1].top /\ rows[i].bottom = rows[i + 1].top
        /\ rows # <<>> => rows[Len(rows)].bottom = page.height

\* all pages of a document of n pages
AllPages(n) == [k \in 1..n |-> k - 1]

\* C5 (page-range fallback): when the start index is at or beyond the
\* number of pages, or the document has fewer pages than the course
\* implies, all pages of the document are processed.
PageRangeFallback ==
    (pc \in {"pages", "done"}
        /\ (start_page >= n_pages \/ n_pages < start_page + PagesPerCourse))
        => pages = AllPages(n_pages)

\* C6 (course clamping): for an openable document and a course <= 0 the
\* start page and the pages selected are those of course 1, the start
\* page is not negative, nothing is raised, and the result is the one the
\* pages selected give.
CourseClamping ==
    (openable /\ course <= 0) =>
        /\ pc # "raised"
        /\ start_page >= 0
        /\ pc # "open" => /\ start_page = StartPage(1)
                          /\ pages = SelectPages(n_pages, StartPage(1))
        /\ pc = "done" => /\ Len(pages_read) = Len(SelectPages(n_pages, StartPage(1)))
                          /\ result = FinalOutput(Accumulated(AllEntries(pages_read)))

CourseClampingWitness ==
    /\ pc = "done"
    /\ openable
    /\ course < 0
    /\ Len(pages) = PagesPerCourse
    /\ result # <<>>

\* C7 (empty-result contract): for an openable document nothing is raised;
\* schedule_by_group is what the pages with group anchors give, the pages
\* without them adding nothing; and when no page read has a group anchor,
\* or no page gives a lesson, the result is empty.
EmptyResultContract ==
    openable =>
        /\ pc # "raised"
        /\ schedule_by_group = Accumulated(AllEntries(WithAnchors(pages_read)))
        /\ (pc = "done" /\ (WithAnchors(pages_read) = <<>> \/ AllEntries(pages_read) = <<>>))
              => result = <<>>

\* two pages were read, one without group anchors and one with them, none
\* gave a lesson, and the result is empty
EmptyResultWitness ==
    /\ pc = "done"
    /\ openable
    /\ Len(pages_read) = PagesPerCourse
    /\ WithAnchors(pages_read) # <<>>
    /\ WithAnchors(pages_read) # pages_read
    /\ AllEntries(pages_read) = <<>>
    /\ result = <<>>

\* the rows whose cells are sampled: the first 8
SampledRows == 1..Min({8, Len(rows)})

HoldsWeekday(cell_words) ==
    \E d \in 1..Len(DayNames) : Contains(Lower(FullText(cell_words)), DayNames[d])

\* column c is a phantom: at least 80% of its sampled cells are empty, or
\* one of them holds a weekday name
Phantom(c) ==
    \/ /\ SampledRows # {}
       /\ 5 * Cardinality({r \in SampledRows : CellOf(r, c) = <<>>}) >= 4 * Cardinality(SampledRows)
    \/ \E r \in SampledRows : HoldsWeekday(CellOf(r, c))

\* C8 (phantom rejection): no column of the column list of a page, from
\* which the group keys of the result are made, is a phantom.
PhantomRejection ==
    PageMapped => \A c \in 1..Len(columns) : ~Phantom(c)

-----------------------------------------------------------------------------
(* Properties of _spatial_text_parser                                      *)

\* one word, capitalized
IsCapitalizedWord(s) ==
    /\ Len(s) > 1
    /\ s[1] \in 1040..1071
    /\ \A i \in 2..Len(s) : s[i] \in 1072..1103

\* a surname and two initials, such as "Иванов И.И."
IsSurnameInitials(t) ==
    /\ Len(t) > 6
    /\ IsCapitalizedWord(SubSeq(t, 1, Len(t) - 5))
    /\ t[Len(t) - 4] = 32
    /\ t[Len(t) - 3] \in 1040..1071
    /\ t[Len(t) - 2] = 46
    /\ t[Len(t) - 1] \in 1040..1071
    /\ t[Len(t)] = 46

\* a room number of 3 or 4 digits
IsRoomNumber(s) == Len(s) \in {3, 4} /\ IsDigitStr(s)

\* C9 (subtractive parser completeness): for the text of the lecture
\* marker, a capitalized subject word, a surname with two initials and a
\* room number of 3 or 4 digits, such as "(лек) Математика Иванов И.И. 301",
\* the parser returns one item: a lecture whose subject contains the
\* subject word, whose teacher is the surname with the initials and whose
\* room is the number.
SubtractiveParserCompleteness ==
    (/\ tpc = "returned"
     /\ parts.marker = <<40, 1083, 1077, 1082, 41>>
     /\ IsCapitalizedWord(parts.subject)
     /\ IsSurnameInitials(parts.teacher)
     /\ IsRoomNumber(parts.room)
     /\ parts.second = NoStaff)
        => /\ Len(lessons) = 1
           /\ lessons[1].type = TypeLecture
           /\ Contains(lessons[1].subject, parts.subject)
           /\ lessons[1].teacher = parts.teacher
           /\ lessons[1].room = parts.room

\* the subject names a language
HasLanguageKeyword(s) == Contains(Lower(s), <<1103, 1079, 1099, 1082>>) \/ SubgroupOf(s) # <<>>

\* C10 (multi-subgroup split): for a text with two instructors and a
\* language keyword, such as
\* "Иностранный язык Петров И.И. 205 Сидорова А.А. 206", the parser returns
\* two items, one per instructor, each with the subject of the text and
\* with a subgroup that is not empty, the two subgroups being different.
MultiSubgroupSplit ==
    (/\ tpc = "returned"
     /\ parts.teacher # <<>>
     /\ parts.second # NoStaff
     /\ HasLanguageKeyword(parts.subject))
        => /\ Len(lessons) = 2
           /\ \A i \in 1..2 :
                 /\ "subgroup" \in DOMAIN lessons[i]
                 /\ lessons[i].subgroup # <<>>
                 /\ lessons[i].subject = parts.subject
           /\ lessons[1].subgroup # lessons[2].subgroup
           /\ lessons[1].teacher = parts.teacher
           /\ lessons[2].teacher = parts.second.teacher


\* the half-open intervals of two columns have a point in common
Overlap(a, b) == Max({a.x0q, b.x0q}) < Min({a.x1q, b.x1q})

\* C11 (ColumnSpec invariant): on a page with at least one group anchor
\* there is one column per anchor, no two columns overlap, every column
\* ends where the next one begins, which is the midpoint of the centres of
\* their two anchors, and the last column ends at the width of the page.
ColumnSpecInvariant ==
    PageMapped =>
        /\ Len(columns) = Len(group_anchors)
        /\ \A i, j \in 1..Len(columns) : i # j => ~Overlap(columns[i], columns[j])
        /\ \A i \in 1..(Len(columns) - 1) :
              /\ columns[i].x1q = columns[i + 1].x0q
              /\ columns[i].x1q = group_anchors[i].center2 + group_anchors[i + 1].center2
        /\ columns[Len(columns)].x1q = 4 * page.width

\* a page with three group anchors was mapped: its middle column lies
\* between two midpoints
ColumnSpecWitness == PageMapped /\ Len(columns) = 3 /\ pc = "pages"

\* HH:MM: two digits, a colon, two digits
IsHHMM(s) ==
    /\ Len(s) = 5
    /\ IsDigit(s[1]) /\ IsDigit(s[2])
    /\ s[3] = 58
    /\ IsDigit(s[4]) /\ IsDigit(s[5])

\* C14 (time normalization): every lesson of the result has a time_start
\* of the form HH:MM and a time_end that is empty or of the form HH:MM.
TimeNormalization ==
    pc = "done" =>
        \A g \in 1..Len(result) : \A d \in 1..Len(result[g].week) :
            \A j \in 1..Len(result[g].week[d].lessons) :
                /\ IsHHMM(result[g].week[d].lessons[j].time_start)
                /\ \/ result[g].week[d].lessons[j].time_end = <<>>
                   \/ IsHHMM(result[g].week[d].lessons[j].time_end)

\* the text is the sports-hall marker and nothing else
IsOnlyMarker(full_text) == Lower(Strip(full_text)) = <<1089, 47, 1082>>

\* the cell of row r and column c, whose text is full_text, gave its group
\* a lesson unless the text is shorter than 3 characters or only the marker
KeptUnlessNoise(r, c, full_text) ==
    (Len(full_text) >= 3 /\ ~IsOnlyMarker(full_text)) => Received(r, c, full_text)

\* C15 (noise rejection is limited to noise): after a page was analysed,
\* every cell that holds words gave its group a lesson at the time of its
\* row, unless its text is shorter than 3 characters or is the marker
\* "с/к" alone; a cell with the marker and other content gave a lesson.
NoiseRejectionLimited ==
    (PageMapped /\ pc # "raised") =>
        \A r \in 1..Len(rows) : \A c \in 1..Len(columns) :
            CellOf(r, c) # <<>> => KeptUnlessNoise(r, c, FullText(CellOf(r, c)))

-----------------------------------------------------------------------------
(* The service of main.py: the handler parse_schedule of /schedule/parse   *)
(* and the background task refresh_schedules_task.  Both are coroutines of *)
(* one event loop: a coroutine runs without interruption from one await to *)
(* the next, so each action below is the code between two awaits.  The     *)
(* portal and the document server are the environment: every download      *)
(* picks its outcome anew.                                                 *)

MaxRequests == 2        \* the calls of /schedule/parse
MaxServiceCourse == 2   \* the courses the portal reports are 1..MaxServiceCourse

\* Variants of two steps of the source, against which the properties of
\* the service are contrasted: lines 107 and 306 saving every result, and
\* lines 111-112 letting the exception leave the task.
HasGroupsAlways(data) == TRUE
RefreshFailureEnds(r) == [r EXCEPT !.pc = "ended", !.content = 0, !.failures = TRUE]

\* the one document address of the portal, and the (pdf_url, course) pairs
Urls == {"IR_timetable.pdf"}
Pairs == Urls \X (1..MaxServiceCourse)
NoPair == <<"", 0>>

\* the bodies a download with status 200 can carry: bytes that are no
\* document, a document of one page, and one of three pages whose first two
\* have no group header
DocLib ==
    << [openable |-> FALSE, pages |-> <<>>],
       [openable |-> TRUE, pages |-> <<3>>],
       [openable |-> TRUE, pages |-> <<13, 13, 16>>] >>

DocIds == 1..Len(DocLib)

\* the content of the pages selected: selected holds 0-based indices
PickPages(doc_pages, selected) ==
    [k \in 1..Len(selected) |-> doc_pages[selected[k] + 1]]

\* pdf.pages[start_page : start_page + 2], as indices into PageLib
PagesOf(doc, c) == PickPages(doc.pages, SelectPages(Len(doc.pages), StartPage(c)))

\* parse_schedule_pdf on the pages ids: it raises if a page raises, and
\* otherwise returns ParsedScheduleResponse(groups=final_output)
ParsePages(ids) ==
    [raises |-> \E i \in 1..Len(ids) : PageAnalysis[ids[i]].raises,
     groups |-> FinalOutput(Accumulated(AllEntries(ids)))]

\* parse_schedule_pdf(pdf_bytes, course): pdfplumber.open raises on bytes
\* that are no document
ParseSchedulePdf(doc, c) ==
    IF doc.openable THEN ParsePages(PagesOf(doc, c))
    ELSE [raises |-> TRUE, groups |-> <<>>]

\* the outcome of parse_schedule_pdf for every body and course, computed once
Parsed == [d \in DocIds, c \in 1..MaxServiceCourse |-> ParseSchedulePdf(DocLib[d], c)]

\* the outcomes of s.get(pdf_url, ...): an exception of requests, a status
\* other than 200, or 200 with a body of DocLib
Downloads ==
    {[raises |-> TRUE, status_code |-> 0, content |-> 0],
     [raises |-> FALSE, status_code |-> 404, content |-> 0]}
    \cup {[raises |-> FALSE, status_code |-> 200, content |-> d] : d \in DocIds}

\* a file of CACHE_DIR: absent, present with text that json.load or the
\* model class rejects, or the json of a ParsedScheduleResponse
NoFile == [kind |-> "absent", groups |-> <<>>]
Unreadable == [kind |-> "unreadable", groups |-> <<>>]
JsonOf(data) == [kind |-> "json", groups |-> data.groups]

\* get_cache_filename(pdf_url, course): the md5 of the two, the text of
\* which is different for different pairs; files are named by the pair
GetCacheFilename(pdf_url, c) == <<pdf_url, c>>

\* load_from_cache(filename): None (<<>>) or the model (<<data>>)
LoadFromCache(file) ==
    IF file.kind = "json" THEN << [groups |-> file.groups] >> ELSE <<>>

\* what save_to_cache can leave in the file: open(filename, 'w') fails and
\* the file stays, the write fails after the file was emptied, or the json
\* of data is written; the exceptions are caught at line 88
SaveOutcomes(file, data) == {file, Unreadable, JsonOf(data)}

\* if parsed_data.groups: / if new_data.groups:
HasGroups(data) == data.groups # <<>>

\* the exceptions of the try block of parse_schedule: none, one that is no
\* HTTPException (of requests, of pdfplumber), or the status of an
\* HTTPException
NoException == 0
OtherException == 1

\* the locals of a call of parse_schedule that has not begun
NewRequest ==
    [pc |-> "new", pdf_url |-> "", course |-> 1, cache_hit |-> FALSE,
     download |-> 0, content |-> 0, parsed |-> FALSE, groups |-> <<>>,
     raised |-> NoException, status |-> 0]

\* the task before its first step.  snapshot is the copy of line 97, todo
\* the pairs of it the loop has not reached, attempted those it has;
\* failures tells whether line 112 logged an exception in this cycle
IdleRefresher ==
    [pc |-> "startup", snapshot |-> {}, todo |-> {}, attempted |-> {}, pair |-> NoPair,
     content |-> 0, failures |-> FALSE]

InitService ==
    /\ ACTIVE_SCHEDULES = {}
    /\ cache = [k \in Pairs |-> NoFile]
    /\ calls = 0
    /\ requests = EmptyBag
    /\ response = NewRequest
    /\ refresher = IdleRefresher
    /\ openable = Idle /\ n_pages = Idle /\ course = Idle /\ pc = Idle
    /\ start_page = Idle /\ pages = Idle /\ pages_read = Idle
    /\ page = Idle /\ group_anchors = Idle /\ columns = Idle /\ rows = Idle
    /\ schedule_by_group = Idle /\ result = Idle
    /\ TextIdle

\* return cached_data / return parsed_data: a 200 response with the model
Returned(r, data) == [r EXCEPT !.pc = "done", !.status = 200, !.groups = data.groups]

\* lines 312-314: every exception of the try block, an HTTPException raised
\* in it included, is caught and answered with HTTPException(500, str(e))
Caught(r, e) == [r EXCEPT !.pc = "done", !.raised = e, !.status = 500]

\* lines 299-304 of a request r whose cache file gave nothing: the download,
\* and the parser started in a thread
DownloadAs(r, pdf_resp) ==
    IF pdf_resp.raises THEN Caught(r, OtherException)
    ELSE IF pdf_resp.status_code # 200
    THEN Caught([r EXCEPT !.download = pdf_resp.status_code], 502)
    ELSE [r EXCEPT !.pc = "parsing", !.download = 200, !.content = pdf_resp.content]

\* lines 290-304 of a request r: the cache file is read; a model is
\* returned at once, otherwise the document is downloaded
LookupAs(r, cached_data, pdf_resp) ==
    IF cached_data # <<>>
    THEN Returned([r EXCEPT !.cache_hit = TRUE], cached_data[1])
    ELSE DownloadAs(r, pdf_resp)

\* a new call has run up to its response or to the await of line 304, with
\* the locals r
Begun(r) ==
    /\ requests' = IF r.pc = "done" THEN requests ELSE requests (+) SetToBag({r})
    /\ response' = IF r.pc = "done" THEN r ELSE response

\* lines 253-304 of a new call, up to the first await.  The portal request
\* raises, or leads to the login page (401), or gives no document address
\* (404); otherwise the pair is registered at line 287, before the cache
\* is looked at.
ParseScheduleStart ==
    /\ calls < MaxRequests
    /\ calls' = calls + 1
    /\ \/ /\ \E e \in {OtherException, 401, 404} : Begun(Caught(NewRequest, e))
          /\ UNCHANGED ACTIVE_SCHEDULES
       \/ \E pair \in Pairs : \E pdf_resp \in Downloads :
             /\ ACTIVE_SCHEDULES' = ACTIVE_SCHEDULES \cup {pair}
             /\ Begun(LookupAs([NewRequest EXCEPT !.pdf_url = pair[1], !.course = pair[2]],
                                LoadFromCache(cache[GetCacheFilename(pair[1], pair[2])]),
                                pdf_resp))
    /\ UNCHANGED <<cache, refresher>>
    /\ UNCHANGED <<parseVars, textVars>>

\* lines 304-314 of the call with the locals r, from the await on, for the
\* outcome of the parser: its exception is caught; otherwise the result is
\* saved if it has groups, and returned
ParseScheduleFinishAs(r, filename, parsed_data) ==
    IF parsed_data.raises
    THEN /\ response' = Caught(r, OtherException)
         /\ UNCHANGED cache
    ELSE /\ response' = Returned([r EXCEPT !.parsed = TRUE], parsed_data)
         /\ IF HasGroups(parsed_data)
            THEN \E file \in SaveOutcomes(cache[filename], parsed_data) :
                    cache' = [cache EXCEPT ![filename] = file]
            ELSE UNCHANGED cache

ParseScheduleFinish ==
    /\ \E r \in BagToSet(requests) :
          /\ requests' = requests (-) SetToBag({r})
          /\ ParseScheduleFinishAs(r, GetCacheFilename(r.pdf_url, r.course),
                                   Parsed[r.content, r.course])
    /\ UNCHANGED <<ACTIVE_SCHEDULES, calls, refresher>>
    /\ UNCHANGED <<parseVars, textVars>>

\* lines 111-115: the exception of one pair is caught and logged, and the
\* task goes on to the pause after the pair
RefreshFailure(r) == [r EXCEPT !.pc = "pause", !.content = 0, !.failures = TRUE]

\* lines 99-115 for pair, up to the next await: the download raises or has
\* a status other than 200, or the parser is started in a thread
RefreshPairAs(r, pair, pdf_resp) ==
    IF pdf_resp.raises THEN RefreshFailure(r)
    ELSE IF pdf_resp.status_code # 200 THEN [r EXCEPT !.pc = "pause"]
    ELSE [r EXCEPT !.pc = "parsing", !.content = pdf_resp.content]

\* the next iteration of the for loop of line 97 in the task state r: the
\* next pair of the copy is downloaded, or the loop is over and the task
\* sleeps for 2 hours.  The copy is a list of a set: its order is any.
RefreshNext(r) ==
    IF r.todo = {}
    THEN refresher' = [r EXCEPT !.pc = "sleep", !.pair = NoPair, !.content = 0]
    ELSE \E pair \in r.todo : \E pdf_resp \in Downloads :
            refresher' = RefreshPairAs([r EXCEPT !.todo = @ \ {pair},
                                                 !.attempted = @ \cup {pair},
                                                 !.pair = pair, !.content = 0],
                                       pair, pdf_resp)

\* lines 94-97 at the start of the task and after the sleep of line 119:
\* list(ACTIVE_SCHEDULES) is the copy the cycle iterates over
RefreshCycle ==
    /\ refresher.pc \in {"startup", "sleep"}
    /\ RefreshNext([refresher EXCEPT !.snapshot = ACTIVE_SCHEDULES,
                                     !.todo = ACTIVE_SCHEDULES,
                                     !.attempted = {}, !.failures = FALSE])
    /\ UNCHANGED <<ACTIVE_SCHEDULES, cache, calls, requests, response>>
    /\ UNCHANGED <<parseVars, textVars>>

\* lines 106-115 from the await on, for the outcome of the parser: its
\* exception is caught; a result with groups is saved
RefreshParsedAs(filename, new_data) ==
    IF new_data.raises
    THEN /\ refresher' = RefreshFailure(refresher)
         /\ UNCHANGED cache
    ELSE /\ refresher' = [refresher EXCEPT !.pc = "pause", !.content = 0]
         /\ IF HasGroups(new_data)
            THEN \E file \in SaveOutcomes(cache[filename], new_data) :
                    cache' = [cache EXCEPT ![filename] = file]
            ELSE UNCHANGED cache

RefreshParsed ==
    /\ refresher.pc = "parsing"
    /\ RefreshParsedAs(GetCacheFilename(refresher.pair[1], refresher.pair[2]),
                       Parsed[refresher.content, refresher.pair[2]])
    /\ UNCHANGED <<ACTIVE_SCHEDULES, calls, requests, response>>
    /\ UNCHANGED <<parseVars, textVars>>

\* line 115 is over: the loop goes on with the next pair
RefreshPause ==
    /\ refresher.pc = "pause"
    /\ RefreshNext(refresher)
    /\ UNCHANGED <<ACTIVE_SCHEDULES, cache, calls, requests, response>>
    /\ UNCHANGED <<parseVars, textVars>>

Refresher == RefreshCycle \/ RefreshParsed \/ RefreshPause

NextService ==
    \/ ParseScheduleStart
    \/ ParseScheduleFinish
    \/ RefreshCycle
    \/ RefreshParsed
    \/ RefreshPause

SpecService == InitService /\ [][NextService]_vars

\* the event loop resumes the task when its sleep is over or its thread
\* has returned
SpecServiceFair == SpecService /\ WF_vars(Refresher)

-----------------------------------------------------------------------------
(* Properties of the service                                               *)

\* C12 (empty result maps to not-found): a response to a request whose
\* parser returned a result without groups has a status of the 404 class,
\* and no 200 response carries an empty groups mapping.
EmptyResultNotFound ==
    response.pc = "done" =>
        /\ (response.parsed /\ response.groups = <<>>) => response.status \in 400..499
        /\ response.status = 200 => response.groups # <<>>

\* C13 (unreadable document maps to 502): a request whose download had a
\* status other than 200 raises 502 inside the handler and is answered
\* with the status raised, and a request whose downloaded bytes the parser
\* cannot open is answered with 502.
UnreadableDocumentIs502 ==
    response.pc = "done" =>
        /\ response.download \notin {0, 200}
              => response.raised = 502 /\ response.status = response.raised
        /\ (response.download = 200 /\ ~DocLib[response.content].openable)
              => response.status = 502

\* the file holds a schedule with groups
HoldsSchedule(file) == file.kind = "json" /\ file.groups # <<>>

\* the step ends a parse, of a request or of the refresher, that returned a
\* result with groups for the pair k
SavesFor(k) ==
    \/ \E r \in BagToSet(requests) :
          /\ requests' = requests (-) SetToBag({r})
          /\ GetCacheFilename(r.pdf_url, r.course) = k
          /\ response'.status = 200 /\ response'.parsed /\ response'.groups # <<>>
          /\ <<response'.pdf_url, response'.course>> = k
    \/ /\ refresher.pc = "parsing" /\ refresher'.pc = "pause"
       /\ refresher.pair = k
       /\ ~Parsed[refresher.content, refresher.pair[2]].raises
       /\ Parsed[refresher.content, refresher.pair[2]].groups # <<>>

\* C16 (the cache never holds an empty schedule): every cache file that
\* holds a result holds one with groups, and a file changes only in a step
\* that ends a parse with groups for its pair: it is then the new schedule
\* (or, if the write itself failed, unreadable), never an empty result and
\* never absent.  A failed download, a failed parse and an empty result
\* leave every file as it is.
CacheNeverHoldsEmpty ==
    /\ [](\A k \in Pairs : cache[k].kind = "json" => cache[k].groups # <<>>)
    /\ [][\A k \in Pairs :
             cache'[k] # cache[k] =>
                 /\ SavesFor(k)
                 /\ cache'[k] = Unreadable \/ HoldsSchedule(cache'[k])]_vars

\* a call was answered with a parsed result without groups, and the file
\* of its pair, written by another parse, holds a schedule
CacheNeverHoldsEmptyWitness ==
    /\ response.parsed
    /\ response.groups = <<>>
    /\ HoldsSchedule(cache[GetCacheFilename(response.pdf_url, response.course)])

\* the refresher has just downloaded pair p, or tried to
Attempting(p) == refresher.pair = p /\ refresher.pc \in {"parsing", "pause"}

\* C17 (refresh coverage): the pair of every response to a request that
\* got as far as a document address is in ACTIVE_SCHEDULES, on a cache hit
\* too; every pair
\* of ACTIVE_SCHEDULES is eventually attempted by the refresher; when a
\* cycle ends, every pair of the copy taken at its start was attempted; and
\* the task never ends, whatever failed.
RefreshCoverage ==
    /\ [](response.pdf_url # "" => <<response.pdf_url, response.course>> \in ACTIVE_SCHEDULES)
    /\ \A p \in Pairs : (p \in ACTIVE_SCHEDULES) ~> Attempting(p)
    /\ [](refresher.pc = "sleep" => refresher.snapshot \subseteq refresher.attempted)
    /\ [](refresher.pc \in {"startup", "parsing", "pause", "sleep"})

\* in one cycle over all pairs the refresher failed on one pair and went
\* on: it has downloaded the document of another and waits for the parser
RefreshCoverageWitness ==
    /\ refresher.snapshot = Pairs
    /\ refresher.failures
    /\ refresher.pc = "parsing"
    /\ Attempting(refresher.pair)
====
